---- MODULE Spec2Model ----
(***************************************************************************)
(* Model of the workshop chat of ethereum-forum (web client):              *)
(*   - processStreamingData (web/src/util/streamingContent.ts), the        *)
(*     grouping of a streamed response into content and tool groups;       *)
(*   - the message tree and the visible path of ChatWithSidebar            *)
(*     (web/src/routes/chat/$chatId.tsx).                                  *)
(***************************************************************************)
EXTENDS Integers, Sequences, FiniteSets, TLC

VARIABLES
    data,                 \* the StreamingResponse[] received so far
    groups,               \* the StreamingGroup[] returned by the latest call
    toolCallsMap,         \* locals of the latest call, as it left them
    toolCallPositions,
    currentContentChunk,
    firstEvent,           \* history: per group, the index in data of the first
                          \* event that put tool data or non-blank text into it
    memo,                 \* history: one earlier call, <<input, output, abandoned>>
    messages,             \* chat.messages, in the order supplied
    last_message_id,      \* chat.chat.last_message_id
    rootNodes,            \* the memoized message tree: its roots, in order
    children,             \* ... and the children of every node, in order
    messagePath,          \* the MessagePath state of ChatWithSidebar
    effectDeps,           \* the dependencies the path effect last ran with
    effect,               \* what became of the path effect: idle, done, hung
    editingMessage,       \* the editingMessage state of Chat: <<>> or <<message>>
    request               \* the sendMessage mutation in flight: <<>> or <<variables>>

streamVars == <<data, groups, toolCallsMap, toolCallPositions,
                currentContentChunk, firstEvent, memo>>

treeVars == <<messages, last_message_id, rootNodes, children, messagePath,
              effectDeps, effect, editingMessage, request>>

vars == <<streamVars, treeVars>>

-----------------------------------------------------------------------------
(* Bounds                                                                  *)

MaxEvents == 4        \* length of the stream under Spec
MaxToolEvents == 3    \* length of the stream under SpecTool
MaxPureEvents == 3    \* length of the stream under SpecPure
NumTools == 2         \* tool ids 1..NumTools
NumIds == 3           \* message ids 1..NumIds under SpecTree
MaxBuild == 4         \* message ids 1..MaxBuild under SpecBuild

-----------------------------------------------------------------------------
(* Values                                                                  *)

\* an optional field that is absent (TypeScript undefined)
NONE == "undefined"

\* text is a sequence of characters
Empty == <<>>
Space == <<" ">>
Hello == <<"H", "e", "l", "l", "o", " ">>
World == <<"w", "o", "r", "l", "d">>

Whitespace == {" ", "\t", "\n"}

\* String.prototype.trim() leaves a non-empty string
TrimNonEmpty(s) == \E k \in 1..Len(s) : s[k] \notin Whitespace

\* JavaScript truthiness of an optional string field
Truthy(x) == x /= NONE /\ x /= ""

RecognizedStatus == {"Starting", "Executing", "Success", "Error"}
AnyStatus == RecognizedStatus \cup {"Unknown", NONE}

ContentDelta(text) == [entry_type |-> "Content", content |-> text]

ToolCallUpdate(id, status, arguments, result) ==
    [entry_type |-> "ToolCall",
     tool_call |-> [tool_id |-> id, arguments |-> arguments,
                    result |-> result, status |-> status]]

IsContent(e) == e.entry_type = "Content"
IsToolUpdate(e) == "tool_call" \in DOMAIN e /\ e.entry_type /= "Content"

-----------------------------------------------------------------------------
(* getHighestPriorityStatus                                                *)

priorities(s) ==
    CASE s = "Starting" -> 1
      [] s = "Executing" -> 2
      [] s = "Success" -> 3
      [] s = "Error" -> 3
      [] OTHER -> 1

\* faulty variant: the lower priority wins
getLowestPriorityStatus(newStatus, existingStatus) ==
    IF ~Truthy(newStatus)
    THEN (IF Truthy(existingStatus) THEN existingStatus ELSE "Starting")
    ELSE IF ~Truthy(existingStatus)
    THEN newStatus
    ELSE IF priorities(newStatus) <= priorities(existingStatus)
         THEN newStatus ELSE existingStatus

\* faulty variant: on equal priority the existing status is kept
getHighestPriorityStatusKeepTies(newStatus, existingStatus) ==
    IF ~Truthy(newStatus)
    THEN (IF Truthy(existingStatus) THEN existingStatus ELSE "Starting")
    ELSE IF ~Truthy(existingStatus)
    THEN newStatus
    ELSE IF priorities(newStatus) > priorities(existingStatus)
         THEN newStatus ELSE existingStatus

getHighestPriorityStatus(newStatus, existingStatus) ==
    IF ~Truthy(newStatus)
    THEN (IF Truthy(existingStatus) THEN existingStatus ELSE "Starting")
    ELSE IF ~Truthy(existingStatus)
    THEN newStatus
    ELSE IF priorities(newStatus) >= priorities(existingStatus)
         THEN newStatus ELSE existingStatus

-----------------------------------------------------------------------------
(* processStreamingData                                                    *)

\* faulty variant: the tool-call map outlives the call
NewLocalsSharedMap ==
    [groups |-> <<>>,
     toolCallsMap |-> toolCallsMap,
     toolCallPositions |-> <<>>,
     currentContentChunk |-> <<>>,
     firstEvent |-> <<>>,
     chunkFirst |-> 0]

\* the locals as the function's opening lines create them
NewLocals ==
    [groups |-> <<>>,
     toolCallsMap |-> <<>>,
     toolCallPositions |-> <<>>,
     currentContentChunk |-> <<>>,
     firstEvent |-> <<>>,
     chunkFirst |-> 0]

\* existing?.field on the tool-call map of the call
ExistingField(st, toolId, field) ==
    IF toolId \in DOMAIN st.toolCallsMap
    THEN st.toolCallsMap[toolId][field]
    ELSE NONE

\* a || b on optional strings
OrElse(a, b) == IF Truthy(a) THEN a ELSE b

\* faulty variant: the fields of the update replace the ones held
updatedToolCallOverwrite(st, tool_call) ==
    [tool_id |-> tool_call.tool_id,
     arguments |-> tool_call.arguments,
     result |-> tool_call.result,
     status |-> getHighestPriorityStatus(
                    tool_call.status,
                    ExistingField(st, tool_call.tool_id, "status"))]

updatedToolCall(st, tool_call) ==
    [tool_id |-> tool_call.tool_id,
     arguments |-> OrElse(tool_call.arguments,
                          ExistingField(st, tool_call.tool_id, "arguments")),
     result |-> OrElse(tool_call.result,
                       ExistingField(st, tool_call.tool_id, "result")),
     status |-> getHighestPriorityStatus(
                    tool_call.status,
                    ExistingField(st, tool_call.tool_id, "status"))]

\* isLastEntry || nextIsNotContent
ShouldFinalize(d, i) ==
    \/ i = Len(d)
    \/ (i + 1 <= Len(d) /\ d[i + 1].entry_type /= "Content")

\* faulty variant: a content group is numbered by its event
ContentStepEventIndex(st, d, i) ==
    LET chunk == st.currentContentChunk \o d[i].content
        first == IF TrimNonEmpty(st.currentContentChunk) THEN st.chunkFirst ELSE i
    IN  IF ShouldFinalize(d, i) /\ TrimNonEmpty(chunk)
        THEN [st EXCEPT
                !.groups = Append(@, [type |-> "content",
                                      content |-> chunk,
                                      index |-> i - 1]),
                !.firstEvent = Append(@, first),
                !.currentContentChunk = <<>>,
                !.chunkFirst = 0]
        ELSE [st EXCEPT !.currentContentChunk = chunk,
                        !.chunkFirst = first]

\* faulty variant: the buffer is flushed whether it is blank or not
ContentStepNoTrim(st, d, i) ==
    LET chunk == st.currentContentChunk \o d[i].content
        first == IF TrimNonEmpty(st.currentContentChunk) THEN st.chunkFirst ELSE i
    IN  IF ShouldFinalize(d, i)
        THEN [st EXCEPT
                !.groups = Append(@, [type |-> "content",
                                      content |-> chunk,
                                      index |-> Len(st.groups)]),
                !.firstEvent = Append(@, first),
                !.currentContentChunk = <<>>,
                !.chunkFirst = 0]
        ELSE [st EXCEPT !.currentContentChunk = chunk,
                        !.chunkFirst = first]

\* the Content branch of the loop body
ContentStep(st, d, i) ==
    LET chunk == st.currentContentChunk \o d[i].content
        first == IF TrimNonEmpty(st.currentContentChunk) THEN st.chunkFirst ELSE i
    IN  IF ShouldFinalize(d, i) /\ TrimNonEmpty(chunk)
        THEN [st EXCEPT
                !.groups = Append(@, [type |-> "content",
                                      content |-> chunk,
                                      index |-> Len(st.groups)]),
                !.firstEvent = Append(@, first),
                !.currentContentChunk = <<>>,
                !.chunkFirst = 0]
        ELSE [st EXCEPT !.currentContentChunk = chunk,
                        !.chunkFirst = first]

\* faulty variant: every update is pushed as a new group
ToolStepAlwaysPush(st, d, i) ==
    LET toolId == d[i].tool_call.tool_id
        updated == updatedToolCall(st, d[i].tool_call)
    IN  [st EXCEPT
            !.toolCallsMap = (toolId :> updated) @@ @,
            !.toolCallPositions = (toolId :> Len(st.groups)) @@ @,
            !.groups = Append(@, [type |-> "tool",
                                  toolCall |-> updated,
                                  index |-> Len(st.groups)]),
            !.firstEvent = Append(@, i)]

\* the tool-call branch of the loop body
ToolStep(st, d, i) ==
    LET toolId == d[i].tool_call.tool_id
        existing == toolId \in DOMAIN st.toolCallsMap
        updated == updatedToolCall(st, d[i].tool_call)
        map == (toolId :> updated) @@ st.toolCallsMap
    IN  IF ~existing
        THEN [st EXCEPT
                !.toolCallsMap = map,
                !.toolCallPositions = (toolId :> Len(st.groups)) @@ @,
                !.groups = Append(@, [type |-> "tool",
                                      toolCall |-> updated,
                                      index |-> Len(st.groups)]),
                !.firstEvent = Append(@, i)]
        ELSE IF /\ toolId \in DOMAIN st.toolCallPositions
                /\ st.toolCallPositions[toolId] < Len(st.groups)
                /\ st.groups[st.toolCallPositions[toolId] + 1].type = "tool"
             THEN [st EXCEPT
                     !.toolCallsMap = map,
                     !.groups[st.toolCallPositions[toolId] + 1].toolCall = updated]
             ELSE [st EXCEPT !.toolCallsMap = map]

\* one iteration of the for loop
LoopBody(st, d, i) ==
    IF IsContent(d[i]) /\ "content" \in DOMAIN d[i] /\ d[i].content /= <<>>
    THEN ContentStep(st, d, i)
    ELSE IF IsToolUpdate(d[i])
    THEN ToolStep(st, d, i)
    ELSE st

RECURSIVE Loop(_, _, _)
Loop(st, d, i) ==
    IF i > Len(d) THEN st ELSE Loop(LoopBody(st, d, i), d, i + 1)

\* the locals when the function returns
Run(d) == Loop(NewLocals, d, 1)

processStreamingData(d) == Run(d).groups

-----------------------------------------------------------------------------
(* The message tree (util/messageTree, built for ChatWithSidebar)          *)

\* parent_message_id of a message without a parent
NULL == 0

MsgIds == 1..NumIds

\* a parent_message_id that names no message of any collection
MissingId == MaxBuild + 1

\* the branch-key of the root selection in a MessagePath
RootKey == MaxBuild + 2

WorkshopMessage(id, parent) == [message_id |-> id, parent_message_id |-> parent]

Range(f) == {f[x] : x \in DOMAIN f}

IdsOf(msgs) == {msgs[k].message_id : k \in DOMAIN msgs}

\* first pass of build: message_id -> message
messageMapOf(msgs) ==
    [id \in IdsOf(msgs) |->
        (CHOOSE m \in Range(msgs) : m.message_id = id)]

ParentIn(map, id) == map[id].parent_message_id

\* the visited-guard: the parent chain is followed upward from id; done are the
\* ids of the chains followed before, onWalk the ids of this chain.  The id met
\* a second time on one chain is the id to be made a root.
RECURSIVE GuardWalk(_, _, _, _)
GuardWalk(map, id, done, onWalk) ==
    IF id \notin DOMAIN map
    THEN [visited |-> done \cup onWalk, rooted |-> {}]
    ELSE IF id \in onWalk
    THEN [visited |-> done \cup onWalk, rooted |-> {id}]
    ELSE IF id \in done
    THEN [visited |-> done \cup onWalk, rooted |-> {}]
    ELSE GuardWalk(map, ParentIn(map, id), done, onWalk \cup {id})

RECURSIVE GuardPass(_, _, _, _, _)
GuardPass(msgs, map, k, visited, rooted) ==
    IF k > Len(msgs) THEN rooted
    ELSE LET w == GuardWalk(map, msgs[k].message_id, visited, {})
         IN  GuardPass(msgs, map, k + 1, w.visited, rooted \cup w.rooted)

\* faulty variant: no guard, a cycle of parent references is left as it is
NoCycleRoots(msgs) == {}

\* the ids the guard makes roots: one per cycle of parent references
CycleRoots(msgs) == GuardPass(msgs, messageMapOf(msgs), 1, {}, {})

\* faulty variant: only a message without a parent is a root
IsRootInNullOnly(msgs, m) ==
    \/ m.parent_message_id = NULL
    \/ m.message_id \in CycleRoots(msgs)

\* second pass of build: a node is a root when its parent is null or missing,
\* or when the guard made it one
IsRootIn(msgs, m) ==
    \/ m.parent_message_id \notin IdsOf(msgs)
    \/ m.message_id \in CycleRoots(msgs)

SeqOfIds(msgs) == [k \in DOMAIN msgs |-> msgs[k].message_id]

\* faulty variant: a child is put in front of its siblings
buildMessageTreeUnshift(msgs) ==
    LET map == messageMapOf(msgs)
        IsRoot(id) == IsRootIn(msgs, map[id])
        Reverse(sq) == [k \in DOMAIN sq |-> sq[Len(sq) + 1 - k]]
    IN  [rootNodes |-> SelectSeq(SeqOfIds(msgs), IsRoot),
         children |->
            [p \in IdsOf(msgs) |->
                LET IsChild(id) == ~IsRoot(id) /\ ParentIn(map, id) = p
                IN  Reverse(SelectSeq(SeqOfIds(msgs), IsChild))],
         messageMap |-> map]

\* faulty variant: a message whose parent is missing is attached nowhere
buildMessageTreeDropOrphans(msgs) ==
    LET map == messageMapOf(msgs)
        IsRoot(id) == IsRootIn(msgs, map[id])
        Kept(id) == ~IsRoot(id) \/ ParentIn(map, id) = NULL
                       \/ ParentIn(map, id) \in DOMAIN map
    IN  [rootNodes |-> SelectSeq(SelectSeq(SeqOfIds(msgs), IsRoot), Kept),
         children |->
            [p \in IdsOf(msgs) |->
                LET IsChild(id) == ~IsRoot(id) /\ ParentIn(map, id) = p
                IN  SelectSeq(SeqOfIds(msgs), IsChild)],
         messageMap |-> map]


buildMessageTree(msgs) ==
    LET map == messageMapOf(msgs)
        IsRoot(id) == IsRootIn(msgs, map[id])
    IN  [rootNodes |-> SelectSeq(SeqOfIds(msgs), IsRoot),
         children |->
            [p \in IdsOf(msgs) |->
                LET IsChild(id) == ~IsRoot(id) /\ ParentIn(map, id) = p
                IN  SelectSeq(SeqOfIds(msgs), IsChild)],
         messageMap |-> map]

\* the tree the component renders with (useMemo over chat.messages)
MessageTree(msgs) == buildMessageTree(msgs)

\* buildPathToMessage: the parent chain of the target, upward, one entry
\* parent -> chosen child per link
RECURSIVE PathUp(_, _, _, _)
PathUp(map, id, path, seen) ==
    IF id \notin DOMAIN map THEN path
    ELSE LET parent == ParentIn(map, id)
         IN  IF parent \notin DOMAIN map \/ parent \in seen
             THEN path
             ELSE PathUp(map, parent, (parent :> id) @@ path, seen \cup {id})

buildPathToMessage(map, target) == PathUp(map, target, <<>>, {})

\* getVisiblePath: from the selected root (the first root when none is
\* selected or the selection is no root) down the selected children
RECURSIVE Descend(_, _, _)
Descend(kids, path, acc) ==
    LET node == acc[Len(acc)]
    IN  IF node \in DOMAIN path /\ path[node] \in Range(kids[node])
        THEN Descend(kids, path, Append(acc, path[node]))
        ELSE acc

\* faulty variant: a node without a valid selection shows its first child
RECURSIVE DescendFirstChild(_, _, _)
DescendFirstChild(kids, path, acc) ==
    LET node == acc[Len(acc)]
    IN  IF node \in DOMAIN path /\ path[node] \in Range(kids[node])
        THEN DescendFirstChild(kids, path, Append(acc, path[node]))
        ELSE IF kids[node] /= <<>>
        THEN DescendFirstChild(kids, path, Append(acc, kids[node][1]))
        ELSE acc

getVisiblePathFirstChild(roots, kids, path) ==
    IF roots = <<>> THEN <<>>
    ELSE IF RootKey \in DOMAIN path /\ path[RootKey] \in Range(roots)
    THEN DescendFirstChild(kids, path, <<path[RootKey]>>)
    ELSE DescendFirstChild(kids, path, <<roots[1]>>)

getVisiblePath(roots, kids, path) ==
    IF roots = <<>> THEN <<>>
    ELSE IF RootKey \in DOMAIN path /\ path[RootKey] \in Range(roots)
    THEN Descend(kids, path, <<path[RootKey]>>)
    ELSE Descend(kids, path, <<roots[1]>>)

\* the while loop of the path effect: from the last message upward while the
\* parent is set and found.  The loop has no exit on a chain that comes back
\* to a message it has left: seen tells such a walk apart (returns = FALSE).
RECURSIVE TraceRoot(_, _, _)
TraceRoot(map, currentMessage, seen) ==
    IF currentMessage.parent_message_id = NULL
    THEN [returns |-> TRUE, message_id |-> currentMessage.message_id]
    ELSE IF currentMessage.parent_message_id \notin DOMAIN map
    THEN [returns |-> TRUE, message_id |-> currentMessage.message_id]
    ELSE IF currentMessage.parent_message_id \in seen \cup {currentMessage.message_id}
    THEN [returns |-> FALSE, message_id |-> currentMessage.message_id]
    ELSE TraceRoot(map, map[currentMessage.parent_message_id],
                   seen \cup {currentMessage.message_id})

\* faulty variant: the root entry is set without looking the target up
InitialPathUnguarded(map, target) ==
    IF target \in DOMAIN map
    THEN LET t == TraceRoot(map, map[target], {})
         IN  [returns |-> t.returns,
              path |-> (RootKey :> t.message_id) @@ buildPathToMessage(map, target)]
    ELSE [returns |-> TRUE,
          path |-> (RootKey :> target) @@ buildPathToMessage(map, target)]

\* the body of the path effect: the path that is handed to setMessagePath
InitialPath(map, target) ==
    IF target \in DOMAIN map
    THEN LET t == TraceRoot(map, map[target], {})
         IN  [returns |-> t.returns,
              path |-> (RootKey :> t.message_id) @@ buildPathToMessage(map, target)]
    ELSE [returns |-> TRUE, path |-> buildPathToMessage(map, target)]

visibleMessages == getVisiblePath(rootNodes, children, messagePath)

ParentRefs == MsgIds \cup {NULL, MissingId}

\* the collections the persistence side can supply.  Ids are opaque and
\* unique: the k-th message supplied is given id k, and its parent is any
\* message supplied before or after it, itself, none, or a missing one.
Collections ==
    UNION {{[k \in 1..n |-> WorkshopMessage(k, f[k])] : f \in [1..n -> ParentRefs]} :
             n \in 0..NumIds}

\* the same with up to MaxBuild messages
BuildCollections ==
    UNION {{[k \in 1..n |-> WorkshopMessage(k, f[k])] :
                f \in [1..n -> (1..MaxBuild) \cup {NULL, MissingId}]} :
             n \in 0..MaxBuild}

InitTree ==
    /\ messages = <<>>
    /\ last_message_id = NULL
    /\ rootNodes = <<>>
    /\ children = <<>>
    /\ messagePath = <<>>
    /\ effectDeps = <<NULL, 0>>
    /\ effect = "idle"
    /\ editingMessage = <<>>
    /\ request = <<>>

\* the chat query delivers the chat; the tree is rebuilt from its messages
LoadChat ==
    /\ messages = <<>>
    /\ request = <<>>
    /\ effect /= "hung"
    /\ \E c \in Collections \ {<<>>}, last \in MsgIds \cup {NULL, MissingId} :
          /\ messages' = c
          /\ last_message_id' = last
          /\ rootNodes' = MessageTree(c).rootNodes
          /\ children' = MessageTree(c).children
    /\ UNCHANGED <<messagePath, effectDeps, effect, editingMessage, request>>
    /\ UNCHANGED streamVars

\* the path effect runs after a render in which its dependencies changed
InitPathEffect ==
    /\ effect /= "hung"
    /\ effectDeps /= <<last_message_id, Len(messages)>>
    /\ effectDeps' = <<last_message_id, Len(messages)>>
    /\ IF last_message_id /= NULL /\ Len(messages) > 0
       THEN LET init == InitialPath(messageMapOf(messages), last_message_id)
            IN  IF init.returns
                THEN messagePath' = init.path /\ effect' = "done"
                ELSE messagePath' = messagePath /\ effect' = "hung"
       ELSE UNCHANGED <<messagePath, effect>>
    /\ UNCHANGED <<messages, last_message_id, rootNodes, children,
                   editingMessage, request>>
    /\ UNCHANGED streamVars

-----------------------------------------------------------------------------
(* The stream: the transport delivers events one at a time and the         *)
(* response is regrouped from everything received so far.                  *)

DeltaTexts == {Empty, Space, Hello, World}

StreamEvents ==
    {ContentDelta(t) : t \in DeltaTexts}
    \cup {ToolCallUpdate(id, s, NONE, NONE) :
            id \in 1..NumTools, s \in {"Starting", "Success"}}

ToolEvents ==
    {ContentDelta(Hello)}
    \cup {ToolCallUpdate(id, s, NONE, NONE) : id \in 1..NumTools, s \in AnyStatus}

PureEvents ==
    {ContentDelta(Hello), ContentDelta(Empty),
     ToolCallUpdate(1, "Starting", NONE, NONE),
     ToolCallUpdate(1, "Success", "x", NONE)}

InitStream ==
    /\ data = <<>>
    /\ groups = <<>>
    /\ toolCallsMap = <<>>
    /\ toolCallPositions = <<>>
    /\ currentContentChunk = <<>>
    /\ firstEvent = <<>>
    /\ memo = <<>>

\* the stream so far is regrouped
Regroup(d) ==
    LET st == Run(d)
    IN  /\ data' = d
        /\ groups' = st.groups
        /\ toolCallsMap' = st.toolCallsMap
        /\ toolCallPositions' = st.toolCallPositions
        /\ currentContentChunk' = st.currentContentChunk
        /\ firstEvent' = st.firstEvent

Receive(e) ==
    /\ Regroup(Append(data, e))
    /\ UNCHANGED memo
    /\ UNCHANGED treeVars

ReceiveContent ==
    /\ Len(data) < MaxEvents
    /\ \E t \in DeltaTexts : Receive(ContentDelta(t))

ReceiveToolCall ==
    /\ Len(data) < MaxEvents
    /\ \E e \in StreamEvents : IsToolUpdate(e) /\ Receive(e)

Init == InitStream /\ InitTree

Next == ReceiveContent \/ ReceiveToolCall

Spec == Init /\ [][Next]_vars

\* tool updates with every status, recognized or not
ReceiveStatus ==
    /\ Len(data) < MaxToolEvents
    /\ \E e \in ToolEvents : Receive(e)

NextTool == ReceiveStatus

SpecTool == Init /\ [][NextTool]_vars

\* tool updates that supply, omit or empty the arguments and the result
MaxFieldEvents == 3

FieldValues == {NONE, "", "x", "y"}

FieldEvents ==
    {ToolCallUpdate(id, "Executing", a, NONE) : id \in 1..NumTools, a \in FieldValues}
    \cup {ToolCallUpdate(id, "Executing", NONE, r) :
             id \in 1..NumTools, r \in FieldValues \ {NONE}}
    \cup {ToolCallUpdate(id, "Success", "x", "y") : id \in 1..NumTools}

ReceiveFields ==
    /\ Len(data) < MaxFieldEvents
    /\ \E e \in FieldEvents : Receive(e)

NextFields == ReceiveFields

SpecFields == Init /\ [][NextFields]_vars

\* streams that are abandoned part-way and started again
ReceivePure ==
    /\ Len(data) < MaxPureEvents
    /\ \E e \in PureEvents : Receive(e)

\* the consumer goes away; the next stream starts from nothing
Abandon ==
    /\ data /= <<>>
    /\ Regroup(<<>>)
    /\ memo' = IF memo = <<>> THEN memo ELSE <<memo[1], memo[2], TRUE>>
    /\ UNCHANGED treeVars

\* history: keep the call just made
Remember ==
    /\ data /= <<>>
    /\ memo = <<>>
    /\ memo' = <<data, groups, FALSE>>
    /\ UNCHANGED <<data, groups, toolCallsMap, toolCallPositions,
                   currentContentChunk, firstEvent>>
    /\ UNCHANGED treeVars

NextPure == ReceivePure \/ Abandon \/ Remember

SpecPure == Init /\ [][NextPure]_vars

\* the page has rendered with the state as it is: no effect is waiting to
\* run, and the path effect has not left the page unresponsive
Rendered ==
    /\ effect /= "hung"
    /\ effectDeps = <<last_message_id, Len(messages)>>

\* select: a new path with parentKey -> childId overwritten, nothing pruned
updatePath(path, parentKey, childId) == (parentKey :> childId) @@ path

\* faulty variant: the selection is always made under the root key
NavigatedPathRootKey(path, message) ==
    updatePath(path, RootKey, message.message_id)

\* faulty variant: the other selections are forgotten
NavigatedPathFresh(path, message) ==
    IF message.parent_message_id /= NULL
    THEN updatePath(<<>>, message.parent_message_id, message.message_id)
    ELSE updatePath(<<>>, RootKey, message.message_id)

\* faulty variant: a message that is not a child of its parent is ignored
NavigatedPathValidated(path, message) ==
    IF message.parent_message_id = NULL
    THEN updatePath(path, RootKey, message.message_id)
    ELSE IF /\ message.parent_message_id \in DOMAIN children
            /\ message.message_id \in Range(children[message.parent_message_id])
         THEN updatePath(path, message.parent_message_id, message.message_id)
         ELSE path

\* faulty variant: the selection made under the child shown before is dropped
NavigatedPathPruned(path, message) ==
    LET key == IF message.parent_message_id /= NULL
               THEN message.parent_message_id ELSE RootKey
        old == IF key \in DOMAIN path THEN {path[key]} \ {message.message_id}
               ELSE {}
    IN  updatePath([k \in DOMAIN path \ old |-> path[k]], key, message.message_id)

\* the path handleNavigateToMessage sets
NavigatedPath(path, message) ==
    IF message.parent_message_id /= NULL
    THEN updatePath(path, message.parent_message_id, message.message_id)
    ELSE updatePath(path, RootKey, message.message_id)

\* the user navigates to a message of the chat
handleNavigateToMessage ==
    /\ Rendered
    /\ \E message \in Range(messages) :
          messagePath' = NavigatedPath(messagePath, message)
    /\ UNCHANGED <<messages, last_message_id, rootNodes, children, effectDeps,
                   effect, editingMessage, request>>
    /\ UNCHANGED streamVars

\* parent_message of a request sent from a page without a last message
Undefined == 0 - 1

\* faulty variant: the globally last message, whatever is visible
LastMessageOf(visible, msgs) ==
    IF msgs /= <<>> THEN <<msgs[Len(msgs)]>> ELSE <<>>

\* lastVisibleMessage: <<message>>, or <<>> for undefined
LastVisibleOf(visible, msgs) ==
    IF Len(visible) > 0
    THEN <<messageMapOf(msgs)[visible[Len(visible)]]>>
    ELSE IF msgs /= <<>> THEN <<msgs[Len(msgs)]>> ELSE <<>>

lastVisibleMessage == LastVisibleOf(visibleMessages, messages)

\* faulty variant: the edit is not looked at
parentMessageIdNoEdit(editing, lastVisible) ==
    IF lastVisible /= <<>> THEN lastVisible[1].message_id ELSE Undefined

\* parentMessageId of onMessageSend
parentMessageId(editing, lastVisible) ==
    IF editing /= <<>>
    THEN editing[1].parent_message_id
    ELSE IF lastVisible /= <<>> THEN lastVisible[1].message_id ELSE Undefined

\* the user starts editing a message shown on the page
handleEditMessage ==
    /\ Rendered
    /\ \E id \in Range(visibleMessages) :
          editingMessage' = <<messageMapOf(messages)[id]>>
    /\ UNCHANGED <<messages, last_message_id, rootNodes, children, messagePath,
                   effectDeps, effect, request>>
    /\ UNCHANGED streamVars

cancelEdit ==
    /\ Rendered
    /\ editingMessage /= <<>>
    /\ editingMessage' = <<>>
    /\ UNCHANGED <<messages, last_message_id, rootNodes, children, messagePath,
                   effectDeps, effect, request>>
    /\ UNCHANGED streamVars

\* the id the persistence side gives the next message: one no message has
\* and none refers to.  No message is sent once the ids are used up.
FreshId == Len(messages) + 1

HasFreshId ==
    /\ FreshId \in MsgIds
    /\ last_message_id /= FreshId
    /\ \A m \in Range(messages) : m.parent_message_id /= FreshId

\* the user sends the input; `edited` remembers the message being edited
onMessageSend ==
    /\ Rendered
    /\ request = <<>>
    /\ HasFreshId
    /\ request' = <<[parent_message |->
                        parentMessageId(editingMessage, lastVisibleMessage),
                     edited |-> editingMessage]>>
    /\ UNCHANGED <<messages, last_message_id, rootNodes, children, messagePath,
                   effectDeps, effect, editingMessage>>
    /\ UNCHANGED streamVars

\* the persistence side appends the message sent and makes it the last one
Persisted(msgs, parent_message) ==
    Append(msgs, WorkshopMessage(Len(msgs) + 1,
                     IF parent_message = Undefined THEN NULL ELSE parent_message))

\* the mutation succeeds; the chat is delivered again with the new message
onSuccess ==
    /\ request /= <<>>
    /\ effect /= "hung"
    /\ LET msgs == Persisted(messages, request[1].parent_message)
       IN  /\ messages' = msgs
           /\ last_message_id' = Len(msgs)
           /\ rootNodes' = MessageTree(msgs).rootNodes
           /\ children' = MessageTree(msgs).children
    /\ editingMessage' = <<>>
    /\ request' = <<>>
    /\ UNCHANGED <<messagePath, effectDeps, effect>>
    /\ UNCHANGED streamVars

\* the chat page: the chat is loaded, the path is initialised, and the user
\* navigates, edits and sends
NextTree ==
    \/ LoadChat
    \/ InitPathEffect
    \/ handleNavigateToMessage
    \/ handleEditMessage
    \/ cancelEdit
    \/ onMessageSend
    \/ onSuccess

SpecTree == Init /\ [][NextTree]_vars

\* a chat without a last message is delivered; only the tree is built
LoadMessages ==
    /\ messages = <<>>
    /\ \E c \in BuildCollections \ {<<>>} :
          /\ messages' = c
          /\ rootNodes' = MessageTree(c).rootNodes
          /\ children' = MessageTree(c).children
    /\ UNCHANGED <<last_message_id, messagePath, effectDeps, effect,
                   editingMessage, request>>
    /\ UNCHANGED streamVars

NextBuild == LoadMessages

\* a chat without a last message is opened and the user moves between its
\* branches
NextBranch == LoadMessages \/ InitPathEffect \/ handleNavigateToMessage

SpecBranch == Init /\ [][NextBranch]_vars

\* any path over any forest: up to MaxPathEntries entries, whose keys are
\* the root key or ids of the collection and whose values are ids of the
\* collection or an id that names no message
MaxPathIds == 3
MaxPathEntries == 2

PathCollections ==
    UNION {{[k \in 1..n |-> WorkshopMessage(k, f[k])] :
                f \in [1..n -> (1..n) \cup {NULL}]} :
             n \in 0..MaxPathIds}

PathsOver(c) ==
    LET keys == IdsOf(c) \cup {RootKey}
        values == IdsOf(c) \cup {MissingId}
    IN  UNION {[K -> values] :
                 K \in {S \in SUBSET keys : Cardinality(S) <= MaxPathEntries}}

\* the visible path is computed for a collection and a path
ResolvePath ==
    /\ messages = <<>>
    /\ messagePath = <<>>
    /\ \E c \in PathCollections :
          /\ messages' = c
          /\ rootNodes' = MessageTree(c).rootNodes
          /\ children' = MessageTree(c).children
          /\ \E path \in PathsOver(c) : messagePath' = path
    /\ UNCHANGED <<last_message_id, effectDeps, effect, editingMessage, request>>
    /\ UNCHANGED streamVars

NextPath == ResolvePath

SpecPath == Init /\ [][NextPath]_vars

SpecBuild == Init /\ [][NextBuild]_vars

-----------------------------------------------------------------------------
(* Properties of processStreamingData                                      *)

RECURSIVE ConcatContent(_)
ConcatContent(gs) ==
    IF gs = <<>> THEN <<>>
    ELSE (IF Head(gs).type = "content" THEN Head(gs).content ELSE <<>>)
         \o ConcatContent(Tail(gs))

\* the text of the deltas of d from event i on, where buf is the text of the
\* run of consecutive deltas in progress; a run that is all whitespace is left out
RECURSIVE SegmentText(_, _, _)
SegmentText(d, i, buf) ==
    IF i > Len(d)
    THEN (IF TrimNonEmpty(buf) THEN buf ELSE <<>>)
    ELSE IF IsContent(d[i])
    THEN SegmentText(d, i + 1, buf \o d[i].content)
    ELSE (IF TrimNonEmpty(buf) THEN buf ELSE <<>>) \o SegmentText(d, i + 1, <<>>)

\* the deltas of d from event i on, concatenated
RECURSIVE DeltaText(_, _)
DeltaText(d, i) ==
    IF i > Len(d) THEN <<>>
    ELSE (IF IsContent(d[i]) THEN d[i].content ELSE <<>>) \o DeltaText(d, i + 1)

ToolIdsSeen == {data[i].tool_call.tool_id : i \in {j \in DOMAIN data : IsToolUpdate(data[j])}}

ToolGroupsOf(id) ==
    {p \in DOMAIN groups : groups[p].type = "tool" /\ groups[p].toolCall.tool_id = id}

UpdatesOf(id) ==
    {i \in DOMAIN data : IsToolUpdate(data[i]) /\ data[i].tool_call.tool_id = id}

\* C1: the texts of the content groups, concatenated in order, are the texts
\* of the deltas, concatenated in order, without the runs of deltas that are
\* all whitespace: no non-blank text is lost, duplicated or moved.
C1_TextPreserved == ConcatContent(groups) = SegmentText(data, 1, <<>>)

\* C2: groups are placed in the order of the first event that contributed to
\* each of them.
C2_FirstAppearanceOrder ==
    \A p, q \in DOMAIN groups : firstEvent[p] < firstEvent[q] => p < q

\* C3: there is exactly one tool group per tool_id seen in an update, and the
\* tool group at a position stays the tool group of the same tool_id at that
\* position after every later event.
C3_OneGroupPerTool ==
    /\ \A id \in ToolIdsSeen : Cardinality(ToolGroupsOf(id)) = 1
    /\ \A p \in DOMAIN groups :
          groups[p].type = "tool" => groups[p].toolCall.tool_id \in ToolIdsSeen

C3_ToolGroupStays ==
    \A p \in DOMAIN groups :
        groups[p].type = "tool" =>
            /\ p \in DOMAIN groups'
            /\ groups'[p].type = "tool"
            /\ groups'[p].toolCall.tool_id = groups[p].toolCall.tool_id

C3_ToolGroupsInPlace == []C3_OneGroupPerTool /\ [][C3_ToolGroupStays]_vars

\* a tool was updated again after a later group was created
C3_Witness ==
    \E id \in ToolIdsSeen :
        /\ Cardinality(UpdatesOf(id)) >= 2
        /\ \E p \in ToolGroupsOf(id) :
              /\ p > 1
              /\ p < Len(groups)
              /\ \E i \in UpdatesOf(id) : i > firstEvent[Len(groups)]

\* the rank the status order gives a status
StatusRank(s) ==
    IF s \in {"Success", "Error"} THEN 3 ELSE IF s = "Executing" THEN 2 ELSE 1

\* C4: the rank of the merged status of a tool_id never decreases from one
\* event to the next, and a merged status of Success or Error is never
\* followed by Executing or Starting.
C4_StatusStep ==
    \A p \in DOMAIN groups :
        groups[p].type = "tool" =>
            /\ p \in DOMAIN groups'
            /\ groups'[p].type = "tool"
            /\ StatusRank(groups'[p].toolCall.status)
                  >= StatusRank(groups[p].toolCall.status)
            /\ (groups[p].toolCall.status \in {"Success", "Error"}
                  => groups'[p].toolCall.status \in {"Success", "Error"})

C4_StatusMonotonic == [][C4_StatusStep]_vars

\* a tool that reached Success was then updated with Executing
C4_Witness ==
    \E i, j \in DOMAIN data :
        /\ i < j
        /\ data[i].entry_type = "ToolCall" /\ data[j].entry_type = "ToolCall"
        /\ data[i].tool_call.tool_id = data[j].tool_call.tool_id
        /\ data[i].tool_call.status = "Success"
        /\ data[j].tool_call.status = "Executing"
        /\ \E p \in ToolGroupsOf(data[i].tool_call.tool_id) :
              groups[p].toolCall.status = "Success"

\* C5: from one event to the next every group stays at its position with its
\* type and tool_id, and the text of a content group only grows at its end.
C5_GroupStays ==
    \A p \in DOMAIN groups :
        /\ p \in DOMAIN groups'
        /\ groups'[p].type = groups[p].type
        /\ groups[p].type = "tool" =>
              groups'[p].toolCall.tool_id = groups[p].toolCall.tool_id
        /\ groups[p].type = "content" =>
              /\ Len(groups'[p].content) >= Len(groups[p].content)
              /\ SubSeq(groups'[p].content, 1, Len(groups[p].content))
                    = groups[p].content

C5_StableGroups == [][C5_GroupStays]_vars

ToolThenContent(d) ==
    \E k \in 1..(Len(d) - 1) :
        /\ \A i \in 1..k :
              IsToolUpdate(d[i]) /\ d[i].tool_call.tool_id = d[1].tool_call.tool_id
        /\ \A i \in (k + 1)..Len(d) : IsContent(d[i])
        /\ TrimNonEmpty(DeltaText(d, 1))

\* C7: updates to one tool_id followed by deltas whose text is not blank give
\* the tool group at index 0 and one content group with all the text at index 1.
C7_ToolThenContent ==
    ToolThenContent(data) =>
        /\ Len(groups) = 2
        /\ groups[1].type = "tool"
        /\ groups[1].index = 0
        /\ groups[1].toolCall.tool_id = data[1].tool_call.tool_id
        /\ groups[2] = [type |-> "content", content |-> DeltaText(data, 1), index |-> 1]

\* Scenario A of the claim as written
ScenarioA ==
    data = <<ToolCallUpdate(1, "Starting", NONE, NONE),
             ToolCallUpdate(1, "Success", NONE, NONE),
             ContentDelta(Hello), ContentDelta(World)>>
    => groups = <<[type |-> "tool", index |-> 0,
                   toolCall |-> [tool_id |-> 1, arguments |-> NONE,
                                 result |-> NONE, status |-> "Success"]],
                  [type |-> "content", content |-> Hello \o World, index |-> 1]>>

-----------------------------------------------------------------------------
(* Properties of the message tree and of the path                          *)

\* the nodes at or below id along the child links (at most fuel links deep)
RECURSIVE Below(_, _, _)
Below(kids, id, fuel) ==
    IF fuel = 0 THEN {id}
    ELSE {id} \cup UNION {Below(kids, c, fuel - 1) : c \in Range(kids[id])}

Occurrences(seq, id) == Cardinality({k \in DOMAIN seq : seq[k] = id})

\* how often id appears in the forest, as a root or as a child
Appearances(id) ==
    LET parents == {p \in DOMAIN children : id \in Range(children[p])}
    IN  Occurrences(rootNodes, id)
        + Cardinality(parents)
        + Cardinality({p \in parents : Occurrences(children[p], id) > 1})

RootsReaching(id) ==
    {k \in DOMAIN rootNodes : id \in Below(children, rootNodes[k], Len(messages))}

\* the ids that lie on a cycle of parent references
RECURSIVE Ancestors(_, _, _)
Ancestors(map, id, fuel) ==
    IF fuel = 0 \/ id \notin DOMAIN map \/ ParentIn(map, id) \notin DOMAIN map
    THEN {}
    ELSE {ParentIn(map, id)} \cup Ancestors(map, ParentIn(map, id), fuel - 1)

OnCycle(id) == id \in Ancestors(messageMapOf(messages), id, Len(messages))

Cyclic == \E id \in IdsOf(messages) : OnCycle(id)

Dangling ==
    \E k \in DOMAIN messages : messages[k].parent_message_id = MissingId

\* C8: the forest has one node per message, every node is reachable from
\* exactly one root and no node appears twice, whatever the order of the
\* messages and however many of their parents are missing.
C8_ForestWellFormed ==
    /\ DOMAIN children = IdsOf(messages)
    /\ Cardinality(IdsOf(messages)) = Len(messages)
    /\ \A id \in IdsOf(messages) :
          /\ Cardinality(RootsReaching(id)) = 1
          /\ Appearances(id) = 1

\* a child supplied before its parent, next to a message whose parent is missing
C8_Witness ==
    /\ Len(messages) = NumIds
    /\ Dangling
    /\ \E j, k \in DOMAIN messages :
          /\ j < k
          /\ messages[j].parent_message_id = messages[k].message_id
          /\ messages[j].message_id \in Range(children[messages[k].message_id])

\* the path has been initialised from a message of the forest
InitialisedFromTarget ==
    /\ effectDeps = <<last_message_id, Len(messages)>>
    /\ last_message_id \in IdsOf(messages)

\* C9: the visible path under the path initialised from a message m of the
\* forest is not empty and ends at m.
C9_PathRoundTrip ==
    InitialisedFromTarget =>
        /\ effect = "done"
        /\ visibleMessages /= <<>>
        /\ visibleMessages[Len(visibleMessages)] = last_message_id

\* the same, for collections whose parent references form no cycle
C9_AcyclicRoundTrip == Cyclic \/ C9_PathRoundTrip

\* C10: when parent references form a cycle, the child links of the forest
\* form none, every message of the cycle is reachable from exactly one root,
\* and exactly one message of each cycle is a root.
C10_CycleBroken ==
    \A id \in IdsOf(messages) :
        OnCycle(id) =>
            /\ \A c \in Range(children[id]) :
                  id \notin Below(children, c, Len(messages))
            /\ Cardinality(RootsReaching(id)) = 1
            /\ Cardinality({r \in Range(rootNodes) :
                  r = id \/ r \in Ancestors(messageMapOf(messages), id,
                                            Len(messages))}) = 1

\* a cycle of two messages, and a message that is its own parent
C10_Witness ==
    /\ \E id \in IdsOf(messages) :
          OnCycle(id) /\ ParentIn(messageMapOf(messages), id) /= id
    /\ \E id \in IdsOf(messages) :
          ParentIn(messageMapOf(messages), id) = id

\* the place of a message in the order supplied
Pos(id) == CHOOSE k \in DOMAIN messages : messages[k].message_id = id

InSuppliedOrder(sq) == \A i, j \in DOMAIN sq : i < j => Pos(sq[i]) < Pos(sq[j])

ParentPresent(m) == m.parent_message_id \in IdsOf(messages)

\* Scenario B: A without parent, then B and C with parent A
ScenarioB ==
    <<WorkshopMessage(1, NULL), WorkshopMessage(2, 1), WorkshopMessage(3, 1)>>

OrderKept ==
    /\ InSuppliedOrder(rootNodes)
    /\ \A p \in DOMAIN children : InSuppliedOrder(children[p])
    /\ messages = ScenarioB => rootNodes = <<1>> /\ children[1] = <<2, 3>>

\* C11 as stated: every message whose parent is in the collection is a child
\* of that parent; children and roots keep the order supplied.
C11_AttachAll ==
    /\ \A m \in Range(messages) :
          ParentPresent(m) => m.message_id \in Range(children[m.parent_message_id])
    /\ OrderKept

\* C11 (amended): every message whose parent is in the collection is a child
\* of that parent, unless it lies on a cycle of parent references and is the
\* message made a root to break it; children and roots keep the order supplied.
C11_AttachUnlessCycleRoot ==
    /\ \A m \in Range(messages) :
          ParentPresent(m) =>
              \/ m.message_id \in Range(children[m.parent_message_id])
              \/ (OnCycle(m.message_id) /\ m.message_id \in Range(rootNodes))
    /\ OrderKept

\* two children were supplied before their parent and are attached to it
C11_Witness ==
    \E p \in DOMAIN children :
        /\ Len(children[p]) >= 2
        /\ \A k \in DOMAIN children[p] : Pos(children[p][k]) < Pos(p)

\* Scenario D: Scenario B's messages and D, whose parent is missing
ScenarioD == Append(ScenarioB, WorkshopMessage(4, MissingId))

\* C12: a message whose parent is set but missing is a root, as is every
\* message without a parent; the messages below it are its children, and
\* every message is in the forest.
C12_OrphanIsRoot ==
    /\ \A m \in Range(messages) :
          m.parent_message_id \notin IdsOf(messages) \cup {NULL} =>
              /\ m.message_id \in Range(rootNodes)
              /\ \A c \in Range(messages) :
                    c.parent_message_id = m.message_id =>
                        c.message_id \in Range(children[m.message_id])
    /\ \A m \in Range(messages) :
          m.parent_message_id = NULL => m.message_id \in Range(rootNodes)
    /\ \A id \in IdsOf(messages) : Cardinality(RootsReaching(id)) = 1
    /\ messages = ScenarioD => rootNodes = <<1, 4>> /\ children[1] = <<2, 3>>

\* an orphan with a child of its own was supplied after an ordinary root
\* with a child, and both are roots
C12_Witness ==
    \E m, c, r, d \in Range(messages) :
        /\ m.parent_message_id = MissingId
        /\ c.parent_message_id = m.message_id
        /\ r.parent_message_id = NULL
        /\ d.parent_message_id = r.message_id
        /\ rootNodes = <<r.message_id, m.message_id>>

VisibleUnder(path) == getVisiblePath(rootNodes, children, path)

MessageOf(id) == messageMapOf(messages)[id]

\* C13: for a node P on the visible path and a child c of P, navigating to c
\* keeps the visible path up to and including P and puts c right after P;
\* selecting a root under the root key makes the visible path start at it;
\* on Scenario B's forest selecting C under A gives the visible path [A, C].
C13_SelectShowsBranch ==
    /\ \A k \in DOMAIN visibleMessages :
          \A c \in Range(children[visibleMessages[k]]) :
              LET v == VisibleUnder(NavigatedPath(messagePath, MessageOf(c)))
              IN  /\ Len(v) >= k + 1
                  /\ SubSeq(v, 1, k) = SubSeq(visibleMessages, 1, k)
                  /\ v[k + 1] = c
    /\ \A r \in Range(rootNodes) :
          /\ VisibleUnder(updatePath(messagePath, RootKey, r))[1] = r
          /\ MessageOf(r).parent_message_id = NULL =>
                 VisibleUnder(NavigatedPath(messagePath, MessageOf(r)))[1] = r
    /\ messages = ScenarioB =>
          VisibleUnder(updatePath(messagePath, 1, 3)) = <<1, 3>>

\* Scenario C: the chat of Scenario B was opened on B and the user went to C
C13_Witness ==
    /\ messages = ScenarioB
    /\ last_message_id = 2
    /\ 1 \in DOMAIN messagePath
    /\ messagePath[1] = 3
    /\ visibleMessages = <<1, 3>>

PathKeys == IdsOf(messages) \cup {MissingId, RootKey}

\* the selection made by a step that changes the path without running the
\* path effect: one key is set, every other entry is as before
C14_SelectStep ==
    (messagePath' /= messagePath /\ effectDeps' = effectDeps) =>
        \E m \in Range(messages) :
            LET key == IF m.parent_message_id /= NULL
                       THEN m.parent_message_id ELSE RootKey
            IN  /\ DOMAIN messagePath' = DOMAIN messagePath \cup {key}
                /\ messagePath'[key] = m.message_id
                /\ \A k \in DOMAIN messagePath \ {key} :
                      messagePath'[k] = messagePath[k]

C14_SelectFrame ==
    \A key \in PathKeys, childId \in IdsOf(messages) \cup {MissingId} :
        LET q == updatePath(messagePath, key, childId)
        IN  /\ DOMAIN q = DOMAIN messagePath \cup {key}
            /\ q[key] = childId
            /\ \A k \in DOMAIN messagePath \ {key} : q[k] = messagePath[k]

\* C14: select gives a path that maps parentKey to childId and has, for
\* every other key, exactly the entry the input path has; this holds of
\* every selection the page makes.
C14_SelectKeepsOthers == []C14_SelectFrame /\ [][C14_SelectStep]_vars

\* the path was made by navigation alone, and holds two selections, one of
\* them for a node that is not shown
C14_Witness ==
    /\ effect = "idle"
    /\ \E k1, k2 \in DOMAIN messagePath :
          k1 /= k2 /\ k1 /= RootKey /\ k1 \notin Range(visibleMessages)

\* a run of the path effect for a target that is set but names no message
C15_AbsentTargetStep ==
    (/\ effectDeps' /= effectDeps
     /\ last_message_id /= NULL
     /\ last_message_id \notin IdsOf(messages)
     /\ Len(messages) > 0) =>
        /\ messagePath' = <<>>
        /\ visibleMessages' /= <<>>
        /\ visibleMessages'[1] = rootNodes[1]

\* C15: when the target names no message of the forest, path initialisation
\* gives the empty path, and the visible path starts at the first root.
C15_AbsentTarget ==
    /\ [](\A t \in PathKeys \ IdsOf(messages) :
             /\ buildPathToMessage(messageMapOf(messages), t) = <<>>
             /\ InitialPath(messageMapOf(messages), t).path = <<>>)
    /\ [][C15_AbsentTargetStep]_vars

\* the effect ran for a missing target on a forest with two roots
C15_Witness ==
    /\ effectDeps = <<MissingId, Len(messages)>>
    /\ last_message_id = MissingId
    /\ Len(rootNodes) >= 2
    /\ messagePath = <<>>
    /\ visibleMessages[1] = rootNodes[1]

IsChildOf(childId, key) ==
    key \in DOMAIN children /\ childId \in Range(children[key])

StopsAt(q, key, childId) ==
    /\ key \in DOMAIN q
    /\ q[key] = childId
    /\ key \in Range(VisibleUnder(q)) =>
           VisibleUnder(q)[Len(VisibleUnder(q))] = key

\* C16: selecting under parentKey a childId that is not a child of it
\* records parentKey -> childId, and the visible path of the new path ends
\* at the parentKey node when that node is on it; so it is for navigating to
\* a message that is not a child of its parent.
C16_InvalidSelect ==
    /\ \A key \in IdsOf(messages) \cup {MissingId},
          childId \in IdsOf(messages) \cup {MissingId} :
            ~IsChildOf(childId, key) =>
                StopsAt(updatePath(messagePath, key, childId), key, childId)
    /\ \A m \in Range(messages) :
          (m.parent_message_id /= NULL
              /\ ~IsChildOf(m.message_id, m.parent_message_id)) =>
                StopsAt(NavigatedPath(messagePath, m),
                        m.parent_message_id, m.message_id)

\* the visible path ends at a node that has children, because the message
\* selected under it is not one of them
C16_Witness ==
    \E key \in DOMAIN messagePath \cap DOMAIN children :
        /\ visibleMessages /= <<>>
        /\ visibleMessages[Len(visibleMessages)] = key
        /\ children[key] /= <<>>
        /\ ~IsChildOf(messagePath[key], key)

\* a step that sends a message
Sends == request = <<>> /\ request' /= <<>>

\* a step in which the message sent is appended and the forest rebuilt
Appends == request /= <<>> /\ request' = <<>>

C17_SendStep ==
    (Sends /\ editingMessage = <<>> /\ visibleMessages /= <<>>) =>
        request'[1].parent_message = visibleMessages[Len(visibleMessages)]

\* C17: a message sent while nothing is being edited and the visible path is
\* not empty has the last node of the visible path as its parent_message.
C17_ParentIsLastVisible == [][C17_SendStep]_vars

\* a message was sent, outside an edit, below a node that is neither the
\* last message of the collection nor a leaf
C17_Witness ==
    /\ request /= <<>>
    /\ request[1].edited = <<>>
    /\ request[1].parent_message \in IdsOf(messages)
    /\ request[1].parent_message /= messages[Len(messages)].message_id
    /\ children[request[1].parent_message] /= <<>>
    /\ visibleMessages[Len(visibleMessages)] = request[1].parent_message

C18_EditSendStep ==
    (Sends /\ editingMessage /= <<>>) =>
        request'[1].parent_message = editingMessage[1].parent_message_id

\* in the rebuilt forest the edited message is where it was, with everything
\* that was below it
C18_Kept(e) ==
    /\ \A id \in IdsOf(messages) :
          SubSeq(children'[id], 1, Len(children[id])) = children[id]
    /\ SubSeq(rootNodes', 1, Len(rootNodes)) = rootNodes
    /\ Below(children, e.message_id, Len(messages))
           \subseteq Below(children', e.message_id, Len(messages'))
    /\ \E k \in DOMAIN rootNodes' :
          e.message_id \in Below(children', rootNodes'[k], Len(messages'))

\* in the rebuilt forest the new message is next to the edited one
C18_Siblings(e, new) ==
    \/ \E p \in DOMAIN children' :
          e.message_id \in Range(children'[p]) /\ new \in Range(children'[p])
    \/ /\ e.parent_message_id \notin IdsOf(messages)
       /\ e.message_id \in Range(rootNodes')
       /\ new \in Range(rootNodes')

C18_SiblingStep ==
    (Appends /\ request[1].edited /= <<>>) =>
        /\ C18_Siblings(request[1].edited[1], Len(messages'))
        /\ C18_Kept(request[1].edited[1])

\* C18 as stated: a message sent during the edit of e is sent with e's
\* parent_message_id; once appended it and e are children of the same
\* parent, or both roots when e has no parent, and e keeps its descendants.
C18_EditGivesSibling == [][C18_EditSendStep /\ C18_SiblingStep]_vars

\* e is a root although its parent is a message of the collection
RootedByGuard(e) ==
    /\ e.parent_message_id \in IdsOf(messages)
    /\ e.message_id \in Range(rootNodes)

C18_SiblingUnlessGuardRootStep ==
    (Appends /\ request[1].edited /= <<>>) =>
        LET e == request[1].edited[1]
            new == Len(messages')
        IN  /\ ~RootedByGuard(e) => C18_Siblings(e, new)
            /\ RootedByGuard(e) =>
                   /\ new \in Range(children'[e.parent_message_id])
                   /\ e.message_id \in Range(rootNodes')
            /\ C18_Kept(e)

\* C18 (amended): a message sent during the edit of e is sent with e's
\* parent_message_id; once appended it and e are children of the same
\* parent, or both roots when e's parent is null or missing, unless e is a
\* root whose parent is in the collection: then the new message is a child
\* of that parent and e stays a root.  e keeps its descendants in every case.
C18_EditGivesSiblingUnlessGuardRoot ==
    [][C18_EditSendStep /\ C18_SiblingUnlessGuardRootStep]_vars

\* the message just appended has no parent, which only the edit of a
\* parentless message gives, next to a root that has a child
C18_Witness ==
    /\ Len(messages) >= 2
    /\ last_message_id = Len(messages)
    /\ effectDeps[2] = Len(messages) - 1
    /\ messages[Len(messages)].parent_message_id = NULL
    /\ \E r \in Range(rootNodes) :
          /\ r /= Len(messages)
          /\ MessageOf(r).parent_message_id = NULL
          /\ children[r] /= <<>>

-----------------------------------------------------------------------------
(* Properties of the content buffer of processStreamingData                *)

\* the index of the first event after the last event that is not a delta
TrailingStart(d) ==
    LET others == {i \in DOMAIN d : ~IsContent(d[i])}
    IN  IF others = {} THEN 1
        ELSE 1 + CHOOSE i \in others : \A j \in others : j <= i

IsSuffix(t, s) ==
    Len(t) <= Len(s) /\ SubSeq(s, Len(s) - Len(t) + 1, Len(s)) = t

\* C19: when the deltas after the last event that is not a delta have
\* non-blank text together, the last group is a content group that ends
\* with that text, whatever the text of each delta, the empty text included.
C19_TrailingFlushed ==
    LET trailing == DeltaText(data, TrailingStart(data))
    IN  TrimNonEmpty(trailing) =>
            /\ groups /= <<>>
            /\ groups[Len(groups)].type = "content"
            /\ IsSuffix(trailing, groups[Len(groups)].content)

\* the maximal runs of consecutive deltas of d, as <<first, last>>
Runs(d) ==
    {r \in (DOMAIN d) \X (DOMAIN d) :
        /\ r[1] <= r[2]
        /\ \A i \in r[1]..r[2] : IsContent(d[i])
        /\ r[1] = 1 \/ ~IsContent(d[r[1] - 1])
        /\ r[2] = Len(d) \/ ~IsContent(d[r[2] + 1])}

RunText(d, r) == DeltaText(SubSeq(d, r[1], r[2]), 1)

\* C20: a buffer that is blank at a flush point gives no group and is
\* emptied: the text of every content group is the text of the deltas
\* between one flush point and the next, with no whitespace left over from
\* an earlier run of deltas.
C20_BlankBufferReset ==
    \A p \in DOMAIN groups :
        groups[p].type = "content" =>
            /\ TrimNonEmpty(groups[p].content)
            /\ \E r \in Runs(data) : groups[p].content = RunText(data, r)

-----------------------------------------------------------------------------
(* Properties of the merge of tool updates                                 *)

\* the step receives event e
Receives(e) == data' = Append(data, e)

StatusOf(gs, id) ==
    LET p == CHOOSE q \in DOMAIN gs :
                 gs[q].type = "tool" /\ gs[q].toolCall.tool_id = id
    IN  gs[p].toolCall.status

C21_UnrecognizedStep ==
    \A e \in ToolEvents :
        (/\ Receives(e)
         /\ IsToolUpdate(e)
         /\ e.tool_call.status \notin RecognizedStatus) =>
            StatusOf(groups', e.tool_call.tool_id)
                = IF e.tool_call.tool_id \in ToolIdsSeen
                  THEN StatusOf(groups, e.tool_call.tool_id)
                  ELSE "Starting"

\* C21: an update whose status is missing or not one of Starting, Executing,
\* Success, Error leaves the merged status of its tool_id as it was, and
\* gives Starting when the tool_id had no status yet.
C21_UnrecognizedKeepsStatus == [][C21_UnrecognizedStep]_vars

\* the non-empty values supplied for field of tool id, by event index
Supplied(id, field) ==
    {i \in UpdatesOf(id) : Truthy(data[i].tool_call[field])}

Latest(S) == CHOOSE i \in S : \A j \in S : j <= i

FieldKept(id, field) ==
    Supplied(id, field) /= {} =>
        \A p \in ToolGroupsOf(id) :
            /\ Truthy(groups[p].toolCall[field])
            /\ groups[p].toolCall[field]
                  = data[Latest(Supplied(id, field))].tool_call[field]

\* C22: once an update has supplied non-empty arguments (result) for a
\* tool_id, its tool group holds non-empty arguments (result) after every
\* later event, equal to the latest non-empty value supplied.
C22_FieldsNeverRegress ==
    \A id \in ToolIdsSeen :
        /\ ToolGroupsOf(id) /= {}
        /\ FieldKept(id, "arguments")
        /\ FieldKept(id, "result")

\* arguments were supplied, replaced by other arguments, then sent empty
\* and then omitted
C22_Witness ==
    \E i, j, k \in DOMAIN data :
        /\ i < j /\ j < k
        /\ data[i].tool_call.tool_id = data[k].tool_call.tool_id
        /\ data[j].tool_call.tool_id = data[k].tool_call.tool_id
        /\ data[i].tool_call.arguments = "x"
        /\ data[j].tool_call.arguments = ""
        /\ data[k].tool_call.arguments = NONE
        /\ \A p \in ToolGroupsOf(data[k].tool_call.tool_id) :
              groups[p].toolCall.arguments = "x"

AllRecognized(id) ==
    \A i \in UpdatesOf(id) : data[i].tool_call.status \in RecognizedStatus

\* the latest update of id among those of the highest priority
LatestHighest(id) ==
    Latest({i \in UpdatesOf(id) :
               \A j \in UpdatesOf(id) :
                   StatusRank(data[j].tool_call.status)
                      <= StatusRank(data[i].tool_call.status)})

StatusesOf(id) == [k \in 1..Cardinality(UpdatesOf(id)) |->
    data[CHOOSE i \in UpdatesOf(id) :
             Cardinality({j \in UpdatesOf(id) : j <= i}) = k].tool_call.status]

\* C23: when all updates of a tool_id carry recognized statuses, the merged
\* status is that of the latest update among those of the highest priority:
\* Success then Error gives Error, Error then Success gives Success,
\* Executing then Starting gives Executing.
C23_LatestOfHighest ==
    \A id \in ToolIdsSeen :
        AllRecognized(id) =>
            /\ StatusOf(groups, id) = data[LatestHighest(id)].tool_call.status
            /\ StatusesOf(id) = <<"Success", "Error">> => StatusOf(groups, id) = "Error"
            /\ StatusesOf(id) = <<"Error", "Success">> => StatusOf(groups, id) = "Success"
            /\ StatusesOf(id) = <<"Executing", "Starting">> =>
                   StatusOf(groups, id) = "Executing"

\* Error, then Success, then Executing came for one tool_id: Success is held
C23_Witness ==
    \E id \in ToolIdsSeen :
        /\ StatusesOf(id) = <<"Error", "Success", "Executing">>
        /\ StatusOf(groups, id) = "Success"

-----------------------------------------------------------------------------
(* Properties of the groups returned                                       *)

\* what the call returned when only the first k events had come
Earlier(k) == Run(SubSeq(data, 1, k))

\* group p of one output and group q of a later one are the same group: the
\* group of one tool_id, or the content group begun by one event
SameGroup(a, p, b, q) ==
    /\ a.groups[p].type = b.groups[q].type
    /\ a.groups[p].type = "tool" =>
           a.groups[p].toolCall.tool_id = b.groups[q].toolCall.tool_id
    /\ a.groups[p].type = "content" => a.firstEvent[p] = b.firstEvent[q]

IndexKept(a, b) ==
    \A p \in DOMAIN a.groups, q \in DOMAIN b.groups :
        SameGroup(a, p, b, q) => a.groups[p].index = b.groups[q].index

C29_NoBlankContent ==
    \A p \in DOMAIN groups :
        groups[p].type = "content" => TrimNonEmpty(groups[p].content)

\* a run of blank deltas ended at a flush point, and a content group came later
C29_Witness ==
    \E r \in Runs(data) :
        /\ RunText(data, r) /= <<>>
        /\ ~TrimNonEmpty(RunText(data, r))
        /\ r[2] < Len(data)
        /\ \E p \in DOMAIN groups :
              groups[p].type = "content" /\ firstEvent[p] > r[2]

InsertAt(d, k, e) == SubSeq(d, 1, k) \o <<e>> \o SubSeq(d, k + 1, Len(d))

\* C30: a delta with empty text put anywhere into the events received,
\* the end included, leaves the groups returned as they are.
C30_EmptyDeltaNeutral ==
    \A k \in 0..Len(data) :
        processStreamingData(InsertAt(data, k, ContentDelta(Empty))) = groups

-----------------------------------------------------------------------------
(* Properties of the visible path                                          *)

HasValidEntry(path, id) ==
    id \in DOMAIN path /\ path[id] \in Range(children[id])

\* C25: for every forest and every path the visible path has no node twice
\* and is empty exactly when there is no root; it starts at the root the
\* root entry names, or at the first root when the entry is absent or names
\* no root; every later node is the child its predecessor's entry names; it
\* ends at the first node that has no entry or whose entry is not a child.
C25_VisiblePath ==
    LET v == visibleMessages
    IN  /\ (v = <<>>) <=> (rootNodes = <<>>)
        /\ \A i, j \in DOMAIN v : i /= j => v[i] /= v[j]
        /\ v /= <<>> =>
              /\ v[1] = IF /\ RootKey \in DOMAIN messagePath
                           /\ messagePath[RootKey] \in Range(rootNodes)
                        THEN messagePath[RootKey]
                        ELSE rootNodes[1]
              /\ \A k \in 1..(Len(v) - 1) :
                    /\ HasValidEntry(messagePath, v[k])
                    /\ messagePath[v[k]] = v[k + 1]
              /\ ~HasValidEntry(messagePath, v[Len(v)])

\* the root entry names a child, not a root; the path starts at the first
\* root, goes one node down and ends at a node that has children
C25_Witness ==
    /\ RootKey \in DOMAIN messagePath
    /\ messagePath[RootKey] \notin Range(rootNodes)
    /\ Len(visibleMessages) = 2
    /\ children[visibleMessages[2]] /= <<>>

\* C26: the walk from the target up to its root, made when the path is
\* initialised, comes to an end for every collection and every target.
C26_InitTerminates == effect /= "hung"

\* path without the entries whose keys are in keys
Without(path, keys) == [k \in DOMAIN path \ keys |-> path[k]]

\* C27: when the path selects B under A and holds a selection under B, then
\* for every other child C of A, going to C and back to B gives the same
\* path and the same visible path; while C is selected the entries at and
\* below B are still in the path and the visible path is what it would be
\* without them.
C27_StaleSelectionsKept ==
    \A A \in DOMAIN messagePath \cap IdsOf(messages) :
        LET B == messagePath[A]
        IN  (B \in Range(children[A]) /\ HasValidEntry(messagePath, B)) =>
                \A C \in Range(children[A]) \ {B} :
                    LET q == NavigatedPath(messagePath, MessageOf(C))
                        r == NavigatedPath(q, MessageOf(B))
                        below == Below(children, B, Len(messages))
                    IN  /\ r = messagePath
                        /\ VisibleUnder(r) = visibleMessages
                        /\ \A k \in below \cap DOMAIN messagePath :
                              k \in DOMAIN q /\ q[k] = messagePath[k]
                        /\ VisibleUnder(q) = VisibleUnder(Without(q, below))
                        /\ A \in Range(visibleMessages) =>
                              /\ C \in Range(VisibleUnder(q))
                              /\ B \notin Range(VisibleUnder(q))

\* the user went from B, with a selection below it, to its sibling C: the
\* entry under B is in the path and B is not shown
C27_Witness ==
    \E A \in DOMAIN messagePath \cap IdsOf(messages), B \in IdsOf(messages) :
        /\ B \in Range(children[A])
        /\ messagePath[A] \in Range(children[A]) \ {B}
        /\ HasValidEntry(messagePath, B)
        /\ A \in Range(visibleMessages)
        /\ B \notin Range(visibleMessages)

\* the forest in use is the one of the current collection
ForestCurrent ==
    /\ rootNodes = MessageTree(messages).rootNodes
    /\ children = MessageTree(messages).children

\* the path effect runs after a message was appended and made the last one
C28_ReinitStep ==
    (/\ effectDeps' /= effectDeps
     /\ effectDeps[2] > 0
     /\ last_message_id = Len(messages)) =>
        /\ effect' /= "hung"
        /\ messagePath' = InitialPath(messageMapOf(messages), last_message_id).path
        /\ visibleMessages' /= <<>>
        /\ visibleMessages'[Len(visibleMessages')] = last_message_id

\* C28: after a message is appended and made the last one, the forest is
\* the one of the current collection and the path is initialised again from
\* that message, whatever was selected before: the visible path ends at it.
C28_ReinitialisedAfterAppend == []ForestCurrent /\ [][C28_ReinitStep]_vars

\* the same, for the runs of the effect that come to an end
C28_ReinitStepIfReturns ==
    (/\ effectDeps' /= effectDeps
     /\ effectDeps[2] > 0
     /\ last_message_id = Len(messages)
     /\ effect' /= "hung") =>
        /\ messagePath' = InitialPath(messageMapOf(messages), last_message_id).path
        /\ visibleMessages' /= <<>>
        /\ visibleMessages'[Len(visibleMessages')] = last_message_id

C28_ReinitialisedIfReturns == []ForestCurrent /\ [][C28_ReinitStepIfReturns]_vars

====
